---- MODULE Spec2Model ----
(***************************************************************************)
(* Model of helpers/utils/EffectiveURL.ts of hoppscotch-app: the           *)
(* computation of the effective (executable) REST request from a request   *)
(* description and an environment, and the combineLatest stream wrapper.   *)
(*                                                                         *)
(* Strings are sequences of tokens.  A token is a pair <<kind, text>>:     *)
(*   <<"lit", w>>   the literal text w                                     *)
(*   <<"var", n>>   the placeholder {{n}}                                  *)
(*   <<"blob", b>>  a Blob (multipart file value)                          *)
(*   <<"b64lit", w>>, <<"b64var", n>>  btoa() of the token                 *)
(* The empty string is <<>>.                                               *)
(***************************************************************************)
EXTENDS Integers, Sequences, FiniteSets, TLC

VARIABLES request, environment, globalVariables, runtime, effective, pc,
          latest, outputs, log

vars == <<request, environment, globalVariables, runtime, effective, pc,
          latest, outputs, log>>

(***************************************************************************)
(* Bounds of the model.                                                    *)
(***************************************************************************)
MaxHeaders == 2
MaxParams == 2
MaxVars == 2
MaxEntries == 3
MaxEmissions == 4

(***************************************************************************)
(* Strings.                                                                *)
(***************************************************************************)
Lit(w) == <<"lit", w>>
Var(n) == <<"var", n>>
Blob(b) == <<"blob", b>>
Str(w) == <<Lit(w)>>
Tpl(n) == <<Var(n)>>
EmptyString == <<>>
Null == "null"

SeqUpTo(S, n) == UNION {[1..k -> S] : k \in 0..n}

\* String.prototype.toLowerCase on the words the model uses.
LowerWord(w) ==
    CASE w = "Authorization" -> "authorization"
      [] w = "Content-Type" -> "content-type"
      [] w = "X-Custom" -> "x-custom"
      [] OTHER -> w

toLowerCase(str) == [i \in DOMAIN str |-> <<str[i][1], LowerWord(str[i][2])>>]

\* btoa(): an injective re-encoding that leaves no placeholder behind.
btoa(str) == [i \in DOMAIN str |-> <<"b64" \o str[i][1], str[i][2]>>]

(***************************************************************************)
(* Template resolution (@hoppscotch/data).                                 *)
(***************************************************************************)
\* variables.find((x) => x.key === name): index of the first match, or 0.
FindIndex(name, variables) ==
    IF \E i \in DOMAIN variables : variables[i].key = name
    THEN CHOOSE i \in DOMAIN variables :
            /\ variables[i].key = name
            /\ \A j \in 1..(i - 1) : variables[j].key # name
    ELSE 0

\* Local variables are consulted first, then the given scope.
Binding(name, variables, localVars) ==
    LET l == FindIndex(name, localVars)
        v == FindIndex(name, variables)
    IN  IF l # 0 THEN <<localVars[l].value>>
        ELSE IF v # 0 THEN <<variables[v].value>>
        ELSE <<>>

RECURSIVE parseTemplateString(_, _, _)
parseTemplateString(str, variables, localVars) ==
    IF str = <<>> THEN <<>>
    ELSE LET t == Head(str)
             b == IF t[1] = "var" THEN Binding(t[2], variables, localVars)
                  ELSE <<>>
             rest == parseTemplateString(Tail(str), variables, localVars)
         IN  IF b # <<>> THEN b[1] \o rest ELSE <<t>> \o rest

\* The checked resolver: fails when a placeholder has no binding.
parseTemplateStringE(str, variables) ==
    IF \E i \in DOMAIN str :
          str[i][1] = "var" /\ FindIndex(str[i][2], variables) = 0
    THEN [isRight |-> FALSE, right |-> <<>>]
    ELSE [isRight |-> TRUE, right |-> parseTemplateString(str, variables, <<>>)]

\* The whole-string resolver used for raw bodies.
parseBodyEnvVariables(body, variables) ==
    parseTemplateString(body, variables, <<>>)

\* getGlobalVariables(): a read of the process-wide store.
getGlobalVariables == globalVariables

(***************************************************************************)
(* Computed headers and params.                                            *)
(***************************************************************************)
\* hasAuthorizationHeader with a fault: only an active header counts.
hasActiveAuthorizationHeader(req) ==
    \E i \in DOMAIN req.headers :
       /\ req.headers[i].active
       /\ toLowerCase(req.headers[i].key) = Str("authorization")

\* req.headers.find((h) => h.key.toLowerCase() === "authorization")
hasAuthorizationHeader(req) ==
    \E i \in DOMAIN req.headers :
       toLowerCase(req.headers[i].key) = Str("authorization")

getComputedAuthHeaders(req, envVars) ==
    IF hasAuthorizationHeader(req) THEN <<>>
    ELSE IF ~req.auth.authActive THEN <<>>
    ELSE IF req.auth.authType = "basic"
    THEN LET username == parseTemplateString(req.auth.username, envVars, <<>>)
             password == parseTemplateString(req.auth.password, envVars, <<>>)
         IN  <<[active |-> TRUE, key |-> Str("Authorization"),
                value |-> <<Lit("Basic ")>>
                            \o btoa(username \o <<Lit(":")>> \o password)]>>
    ELSE IF req.auth.authType = "bearer" \/ req.auth.authType = "oauth-2"
    THEN <<[active |-> TRUE, key |-> Str("Authorization"),
            value |-> <<Lit("Bearer ")>>
                        \o parseTemplateString(req.auth.token, envVars, <<>>)]>>
    ELSE IF req.auth.authType = "api-key" /\ req.auth.addTo = "Headers"
    THEN <<[active |-> TRUE,
            key |-> parseTemplateString(req.auth.key, envVars, <<>>),
            value |-> parseTemplateString(req.auth.value, envVars, <<>>)]>>
    ELSE <<>>

\* hasActiveContentTypeHeader with a fault: an inactive header counts too.
hasAnyContentTypeHeader(req) ==
    \E i \in DOMAIN req.headers :
       toLowerCase(req.headers[i].key) = Str("content-type")

\* req.headers.find((req) => req.active && req.key.toLowerCase() === "content-type")
hasActiveContentTypeHeader(req) ==
    \E i \in DOMAIN req.headers :
       /\ req.headers[i].active
       /\ toLowerCase(req.headers[i].key) = Str("content-type")

getComputedBodyHeaders(req) ==
    IF hasActiveContentTypeHeader(req) THEN <<>>
    ELSE IF req.body.contentType = Null THEN <<>>
    ELSE <<[active |-> TRUE, key |-> Str("content-type"),
            value |-> Str(req.body.contentType)]>>

getComputedHeaders(req, envVars) ==
    LET a == getComputedAuthHeaders(req, envVars)
        b == getComputedBodyHeaders(req)
    IN  [i \in DOMAIN a |-> [source |-> "auth", header |-> a[i]]]
        \o [i \in DOMAIN b |-> [source |-> "body", header |-> b[i]]]

\* getComputedParams with a fault: the addTo check is missing.
getComputedParamsAnyAddTo(req, envVars) ==
    IF ~req.auth.authActive THEN <<>>
    ELSE IF req.auth.authType # "api-key" THEN <<>>
    ELSE <<[source |-> "auth",
            param |-> [active |-> TRUE,
                       key |-> parseTemplateString(req.auth.key, envVars, <<>>),
                       value |-> parseTemplateString(req.auth.value, envVars, <<>>)]]>>

getComputedParams(req, envVars) ==
    IF ~req.auth.authActive THEN <<>>
    ELSE IF req.auth.authType # "api-key" THEN <<>>
    ELSE IF req.auth.addTo # "Query params" THEN <<>>
    ELSE <<[source |-> "auth",
            param |-> [active |-> TRUE,
                       key |-> parseTemplateString(req.auth.key, envVars, <<>>),
                       value |-> parseTemplateString(req.auth.value, envVars, <<>>)]]>>

(***************************************************************************)
(* The body.                                                               *)
(***************************************************************************)
\* A raw key-value text is a sequence of lines; a line is an entry
\* (active or commented out) or malformed text, which fails the parse.
parseRawKeyValueEntriesE(raw) ==
    IF \E i \in DOMAIN raw : raw[i].malformed
    THEN [isRight |-> FALSE, right |-> <<>>]
    ELSE [isRight |-> TRUE,
          right |-> [i \in DOMAIN raw |->
                       [active |-> raw[i].active, key |-> raw[i].key,
                        value |-> raw[i].value]]]

\* Groups [key, value] tuples by key, keys in first-seen order.
tupleWithSameKeysToRecord(tuples) ==
    LET firsts == SelectSeq([i \in DOMAIN tuples |-> i],
                            LAMBDA i : \A j \in 1..(i - 1) :
                                          tuples[j][1] # tuples[i][1])
        valuesOf(k) == LET sel == SelectSeq(tuples, LAMBDA p : p[1] = k)
                       IN  [i \in DOMAIN sel |-> sel[i][2]]
    IN  [g \in DOMAIN firsts |->
           [key |-> tuples[firsts[g]][1],
            values |-> valuesOf(tuples[firsts[g]][1])]]

\* qs.stringify(obj, { indices: false }): "k=v1&k=v2&..." as the sequence
\* of its key=value pairs.
RECURSIVE qsStringify(_)
qsStringify(obj) ==
    IF obj = <<>> THEN <<>>
    ELSE [i \in DOMAIN Head(obj).values |->
            <<Head(obj).key, Head(obj).values[i]>>]
         \o qsStringify(Tail(obj))

\* urlencodedPairs with a fault: the A.filter step is missing.
urlencodedPairsUnfiltered(entries, envVariables) ==
    LET mapped == [i \in DOMAIN entries |->
                      <<parseTemplateStringE(entries[i].key, envVariables),
                        parseTemplateStringE(entries[i].value, envVariables)>>]
        rights == SelectSeq(mapped, LAMBDA p : p[1].isRight /\ p[2].isRight)
    IN  [i \in DOMAIN rights |-> <<rights[i][1].right, rights[i][2].right>>]

\* A.filter, A.map and A.filterMap of the urlencoded pipeline.
urlencodedPairs(entries, envVariables) ==
    LET filtered == SelectSeq(entries,
                              LAMBDA x : x.active /\ x.key # EmptyString)
        mapped == [i \in DOMAIN filtered |->
                      <<parseTemplateStringE(filtered[i].key, envVariables),
                        parseTemplateStringE(filtered[i].value, envVariables)>>]
        rights == SelectSeq(mapped, LAMBDA p : p[1].isRight /\ p[2].isRight)
    IN  [i \in DOMAIN rights |-> <<rights[i][1].right, rights[i][2].right>>]

\* The comparator passed to arraySort.
sortFilesDown(a, b) ==
    IF a.isFile THEN 1
    ELSE IF b.isFile THEN -1
    ELSE 0

\* Array.prototype.sort calls the comparator on (later, earlier) or on
\* (earlier, later) elements, as the runtime chooses.
MustPrecede(item, prev) ==
    IF runtime = "later-earlier"
    THEN sortFilesDown(item, prev) < 0
    ELSE sortFilesDown(prev, item) > 0

InsertSorted(prefix, item) ==
    LET n == Len(prefix)
        j == CHOOSE j \in 0..n :
                /\ \A k \in (j + 1)..n : MustPrecede(item, prefix[k])
                /\ j = 0 \/ ~MustPrecede(item, prefix[j])
    IN  SubSeq(prefix, 1, j) \o <<item>> \o SubSeq(prefix, j + 1, n)

\* A stable insertion sort of a copy of the array.
RECURSIVE arraySort(_)
arraySort(arr) ==
    IF arr = <<>> THEN <<>>
    ELSE InsertSorted(arraySort(SubSeq(arr, 1, Len(arr) - 1)), arr[Len(arr)])

RECURSIVE arrayFlatMap(_, _)
arrayFlatMap(arr, envVariables) ==
    IF arr = <<>> THEN <<>>
    ELSE LET x == Head(arr)
             key == parseTemplateString(x.key, envVariables, <<>>)
         IN  (IF x.isFile
              THEN [i \in DOMAIN x.value |-> [key |-> key, value |-> <<x.value[i]>>]]
              ELSE <<[key |-> key,
                      value |-> parseTemplateString(x.value, envVariables, <<>>)]>>)
             \o arrayFlatMap(Tail(arr), envVariables)

\* A FormData holding the entries, appended in order.
toFormData(entries) == [kind |-> "formdata", value |-> entries]

getFinalBodyFromRequest(req, envVariables) ==
    IF req.body.contentType = Null
    THEN [kind |-> "null", value |-> <<>>]
    ELSE IF req.body.contentType = "application/x-www-form-urlencoded"
    THEN LET parsed == parseRawKeyValueEntriesE(req.body.body)
         IN  IF parsed.isRight
             THEN [kind |-> "string",
                   value |-> qsStringify(tupleWithSameKeysToRecord(
                                urlencodedPairs(parsed.right, envVariables)))]
             ELSE [kind |-> "null", value |-> <<>>]
    ELSE IF req.body.contentType = "multipart/form-data"
    THEN toFormData(arrayFlatMap(
            arraySort(SelectSeq(req.body.body,
                                LAMBDA x : x.key # EmptyString /\ x.active)),
            envVariables))
    ELSE [kind |-> "string",
          value |-> parseBodyEnvVariables(req.body.body, envVariables)]

(***************************************************************************)
(* The effective request.                                                  *)
(***************************************************************************)
\* mergeScope with a fault: the global variables come first.
mergeScopeGlobalFirst(environmentVariables) ==
    getGlobalVariables \o environmentVariables

\* [...environment.variables, ...getGlobalVariables()]
mergeScope(environmentVariables) ==
    environmentVariables \o getGlobalVariables

\* combineEntries with a fault: the computed entries are appended.
combineEntriesAppended(computed, explicit) == explicit \o computed

\* pipe(computed, A.concat(explicit))
combineEntries(computed, explicit) == computed \o explicit

\* keepEntry with a fault: the active flag is not looked at.
keepEntryNonEmpty(x) == x.key # EmptyString

\* (x) => x.active && x.key !== ""
keepEntry(x) == x.active /\ x.key # EmptyString

resolveEntries(entries, envVariables, localVars) ==
    [i \in DOMAIN entries |->
       [active |-> TRUE,
        key |-> parseTemplateString(entries[i].key, envVariables, localVars),
        value |-> parseTemplateString(entries[i].value, envVariables, localVars)]]

\* effectiveFinalHeaders with a fault: request.vars is visible to the headers.
effectiveFinalHeadersWithVars(req, envVariables) ==
    LET c == getComputedHeaders(req, envVariables)
    IN  resolveEntries(
            SelectSeq(combineEntries([i \in DOMAIN c |-> c[i].header], req.headers),
                      keepEntry),
            envVariables, req.vars)

effectiveFinalHeaders(req, envVariables) ==
    LET c == getComputedHeaders(req, envVariables)
    IN  resolveEntries(
            SelectSeq(combineEntries([i \in DOMAIN c |-> c[i].header], req.headers),
                      keepEntry),
            envVariables, <<>>)

effectiveFinalParams(req, envVariables) ==
    LET c == getComputedParams(req, envVariables)
    IN  resolveEntries(
            SelectSeq(combineEntries([i \in DOMAIN c |-> c[i].param], req.params),
                      keepEntry),
            envVariables, <<>>)

getEffectiveRESTRequest(req, env) ==
    LET envVariables == mergeScope(env.variables)
    IN  [request |-> req,
         effectiveFinalURL |->
             parseTemplateString(req.endpoint, envVariables, req.vars),
         effectiveFinalHeaders |-> effectiveFinalHeaders(req, envVariables),
         effectiveFinalParams |-> effectiveFinalParams(req, envVariables),
         effectiveFinalBody |-> getFinalBodyFromRequest(req, envVariables),
         effectiveFinalVars |-> req.vars]

(***************************************************************************)
(* The stream: combineLatest([request$, environment$]).pipe(map(...)).     *)
(* latest holds the last value of each input (a sequence of length 0 or    *)
(* 1); outputs is what the stream has emitted; log is the history of the   *)
(* input emissions.                                                        *)
(***************************************************************************)
\* emit with a fault: a result equal to the last one is not emitted.
emitDistinct(values, outs) ==
    IF values.request # <<>> /\ values.environment # <<>>
    THEN LET e == getEffectiveRESTRequest(values.request[1],
                                          values.environment[1])
         IN  IF outs # <<>> /\ outs[Len(outs)] = e THEN outs
             ELSE Append(outs, e)
    ELSE outs

\* combineLatest emits once every input has a value; map applies
\* getEffectiveRESTRequest to the pair of latest values.
emit(values, outs) ==
    IF values.request # <<>> /\ values.environment # <<>>
    THEN Append(outs, getEffectiveRESTRequest(values.request[1],
                                              values.environment[1]))
    ELSE outs

(***************************************************************************)
(* Inputs.                                                                 *)
(***************************************************************************)
Binding1(k, v) == [key |-> k, value |-> v]

NoAuth == [authType |-> "none", authActive |-> TRUE, username |-> <<>>,
           password |-> <<>>, token |-> <<>>, key |-> <<>>, value |-> <<>>,
           addTo |-> "Headers"]

AuthDomain ==
    {[NoAuth EXCEPT !.authType = "basic", !.authActive = a,
                    !.username = Tpl("token"), !.password = Str("p")] :
        a \in BOOLEAN}
    \cup {[NoAuth EXCEPT !.authType = t, !.authActive = a,
                         !.token = Tpl("token")] :
            t \in {"bearer", "oauth-2"}, a \in BOOLEAN}
    \cup {[NoAuth EXCEPT !.authType = "api-key", !.authActive = a,
                         !.key = Str("X"), !.value = Tpl("token"),
                         !.addTo = d] :
            a \in BOOLEAN, d \in {"Headers", "Query params"}}
    \cup {NoAuth}

HeaderDomain ==
    {[key |-> k, value |-> Tpl("token"), active |-> a] :
        k \in {EmptyString, Str("Authorization"), Str("Content-Type"),
               Str("X-Custom"), Tpl("e")},
        a \in BOOLEAN}

ParamDomain ==
    {[key |-> k, value |-> Tpl("token"), active |-> a] :
        k \in {EmptyString, Str("q"), Tpl("e")}, a \in BOOLEAN}

NullBody == [contentType |-> Null, body |-> <<>>]

JsonBody == [contentType |-> "application/json",
             body |-> <<Lit("{\"id\":"), Var("id"), Lit("}")>>]

EnvDomain ==
    {[name |-> "empty", variables |-> <<>>],
     [name |-> "env",
      variables |-> <<Binding1("e", EmptyString),
                      Binding1("token", Str("abc")),
                      Binding1("v", Str("1"))>>]}

DefaultRequest ==
    [endpoint |-> <<Lit("/item/"), Var("id")>>, headers |-> <<>>,
     params |-> <<>>, vars |-> <<>>, auth |-> NoAuth, body |-> NullBody]

NoResult ==
    [request |-> DefaultRequest, effectiveFinalURL |-> <<>>,
     effectiveFinalHeaders |-> <<>>, effectiveFinalParams |-> <<>>,
     effectiveFinalBody |-> [kind |-> "null", value |-> <<>>],
     effectiveFinalVars |-> <<>>]

\* What every specification starts from besides its inputs.
Idle ==
    /\ effective = NoResult
    /\ pc = "ready"
    /\ latest = [request |-> <<>>, environment |-> <<>>]
    /\ outputs = <<>>
    /\ log = <<>>

(***************************************************************************)
(* Spec: headers, params, auth and content type.                           *)
(***************************************************************************)
Init ==
    /\ Idle
    /\ runtime = "later-earlier"
    /\ globalVariables = <<>>
    /\ environment \in EnvDomain
    /\ \E a \in AuthDomain, b \in {NullBody, JsonBody} :
          \/ \E h \in SeqUpTo(HeaderDomain, MaxHeaders) :
                request = [DefaultRequest EXCEPT !.headers = h, !.auth = a,
                                                 !.body = b]
          \/ \E q \in SeqUpTo(ParamDomain, MaxParams) :
                request = [DefaultRequest EXCEPT !.params = q, !.auth = a,
                                                 !.body = b]

\* One call of getEffectiveRESTRequest(request, environment).
Resolve ==
    /\ pc = "ready"
    /\ effective' = getEffectiveRESTRequest(request, environment)
    /\ pc' = "done"
    /\ UNCHANGED <<request, environment, globalVariables, runtime, latest,
                   outputs, log>>

Next == Resolve

Spec == Init /\ [][Next]_vars

(***************************************************************************)
(* Properties of Spec.                                                     *)
(***************************************************************************)
Scope == mergeScope(environment.variables)

Resolved(str) == parseTemplateString(str, Scope, <<>>)

ResolvedEntries(entries) ==
    [i \in DOMAIN entries |->
       [active |-> TRUE, key |-> Resolved(entries[i].key),
        value |-> Resolved(entries[i].value)]]

Kept(entries) == SelectSeq(entries, LAMBDA x : x.active /\ x.key # <<>>)

AuthSourced(computed) == SelectSeq(computed, LAMBDA c : c.source = "auth")

HeadersOf(computed) == [i \in DOMAIN computed |-> computed[i].header]

ParamsOf(computed) == [i \in DOMAIN computed |-> computed[i].param]

IsAuthorization(key) == toLowerCase(key) = <<<<"lit", "authorization">>>>

IsContentType(key) == toLowerCase(key) = <<<<"lit", "content-type">>>>

DeclaresAuthorization ==
    \E i \in DOMAIN request.headers : IsAuthorization(request.headers[i].key)

\* C1: when the request declares a header named authorization (in any
\* case, active or not), getComputedHeaders has no entry of source "auth",
\* and the Authorization headers of effectiveFinalHeaders are exactly the
\* declared headers that resolve to that name.
C1_NoSecondAuthorization ==
    (pc = "done" /\ DeclaresAuthorization) =>
        /\ AuthSourced(getComputedHeaders(request, Scope)) = <<>>
        /\ Cardinality({j \in DOMAIN effective.effectiveFinalHeaders :
              IsAuthorization(effective.effectiveFinalHeaders[j].key)})
           = Cardinality({i \in DOMAIN request.headers :
                /\ request.headers[i].active
                /\ request.headers[i].key # <<>>
                /\ IsAuthorization(Resolved(request.headers[i].key))})

C1_Witness ==
    /\ pc = "done"
    /\ request.auth.authActive
    /\ request.auth.authType \in {"basic", "bearer", "oauth-2"}
    /\ \E i \in DOMAIN request.headers :
          /\ IsAuthorization(request.headers[i].key)
          /\ ~request.headers[i].active
    /\ \A j \in DOMAIN effective.effectiveFinalHeaders :
          ~IsAuthorization(effective.effectiveFinalHeaders[j].key)

\* C2: getComputedBodyHeaders returns nothing when an active content-type
\* header is declared or body.contentType is null, and otherwise exactly
\* one active header content-type: <body.contentType>, which
\* getEffectiveRESTRequest places right after the auth-sourced headers.
C2_BodyHeader ==
    pc = "done" =>
        LET b == getComputedBodyHeaders(request)
            n == Len(AuthSourced(getComputedHeaders(request, Scope)))
        IN  IF \/ \E i \in DOMAIN request.headers :
                      /\ request.headers[i].active
                      /\ IsContentType(request.headers[i].key)
               \/ request.body.contentType = Null
            THEN b = <<>>
            ELSE /\ b = <<[active |-> TRUE,
                           key |-> <<<<"lit", "content-type">>>>,
                           value |-> <<<<"lit", request.body.contentType>>>>]>>
                 /\ Len(effective.effectiveFinalHeaders) > n
                 /\ effective.effectiveFinalHeaders[n + 1] = b[1]

C2_Witness ==
    /\ pc = "done"
    /\ request.body.contentType = "application/json"
    /\ \E i \in DOMAIN request.headers :
          /\ IsContentType(request.headers[i].key)
          /\ ~request.headers[i].active
    /\ \E j \in DOMAIN effective.effectiveFinalHeaders :
          effective.effectiveFinalHeaders[j]
            = [active |-> TRUE, key |-> Str("content-type"),
               value |-> Str("application/json")]

AllHeaders == HeadersOf(getComputedHeaders(request, Scope)) \o request.headers

AllParams == ParamsOf(getComputedParams(request, Scope)) \o request.params

FromKept(final, all) ==
    /\ Len(final) = Len(Kept(all))
    /\ \A j \in DOMAIN final :
          \E i \in DOMAIN all :
             /\ all[i].active
             /\ all[i].key # <<>>
             /\ final[j].key = Resolved(all[i].key)
             /\ final[j].value = Resolved(all[i].value)

\* C3 as stated: no entry of effectiveFinalHeaders or effectiveFinalParams
\* has an empty key.
C3_NoEmptyKey ==
    pc = "done" =>
        /\ \A j \in DOMAIN effective.effectiveFinalHeaders :
              effective.effectiveFinalHeaders[j].key # <<>>
        /\ \A j \in DOMAIN effective.effectiveFinalParams :
              effective.effectiveFinalParams[j].key # <<>>

\* C3 amended: every entry of effectiveFinalHeaders and effectiveFinalParams
\* is the resolution of a computed or declared entry that is active and
\* whose unresolved key is not empty, one final entry per such entry; every
\* computed entry is active.
C3_FilteredBeforeResolution ==
    pc = "done" =>
        /\ FromKept(effective.effectiveFinalHeaders, AllHeaders)
        /\ FromKept(effective.effectiveFinalParams, AllParams)
        /\ \A i \in DOMAIN getComputedHeaders(request, Scope) :
              getComputedHeaders(request, Scope)[i].header.active
        /\ \A i \in DOMAIN getComputedParams(request, Scope) :
              getComputedParams(request, Scope)[i].param.active

C3_Witness ==
    /\ pc = "done"
    /\ \E i \in DOMAIN request.headers :
          ~request.headers[i].active /\ request.headers[i].key # <<>>
    /\ \E i \in DOMAIN request.headers :
          request.headers[i].active /\ request.headers[i].key # <<>>
    /\ getComputedHeaders(request, Scope) # <<>>
    /\ Len(effective.effectiveFinalHeaders) < Len(AllHeaders)

\* C4: effectiveFinalHeaders (effectiveFinalParams) is the resolution, entry
\* by entry, of the computed entries that are active with a non-empty key
\* followed by the declared entries that are active with a non-empty key,
\* each group in its own order.
C4_ComputedFirst ==
    pc = "done" =>
        /\ effective.effectiveFinalHeaders
             = ResolvedEntries(Kept(HeadersOf(getComputedHeaders(request, Scope))))
               \o ResolvedEntries(Kept(request.headers))
        /\ effective.effectiveFinalParams
             = ResolvedEntries(Kept(ParamsOf(getComputedParams(request, Scope))))
               \o ResolvedEntries(Kept(request.params))

C4_Witness ==
    /\ pc = "done"
    /\ Len(Kept(HeadersOf(getComputedHeaders(request, Scope)))) = 2
    /\ Len(Kept(request.headers)) = 1
    /\ Len(request.headers) = 2
    /\ effective.effectiveFinalHeaders[3].key = Str("X-Custom")
    /\ effective.effectiveFinalHeaders[3].value = Str("abc")

ApiKeyPair ==
    [active |-> TRUE, key |-> Resolved(request.auth.key),
     value |-> Resolved(request.auth.value)]

ActiveApiKey == request.auth.authActive /\ request.auth.authType = "api-key"

\* C7: getComputedParams is the one param resolve(auth.key) =
\* resolve(auth.value) when auth is active, of type api-key and added to
\* the query params, and empty otherwise; then no header is auth-sourced.
\* Added to the headers, and no authorization header being declared, the
\* pair is the one auth-sourced header and no param is computed.
C7_ApiKeyPlacement ==
    pc = "done" =>
        LET p == getComputedParams(request, Scope)
            h == AuthSourced(getComputedHeaders(request, Scope))
        IN  /\ IF ActiveApiKey /\ request.auth.addTo = "Query params"
               THEN /\ p = <<[source |-> "auth", param |-> ApiKeyPair]>>
                    /\ h = <<>>
                    /\ effective.effectiveFinalParams[1].key = ApiKeyPair.key
                    /\ effective.effectiveFinalParams[1].value = ApiKeyPair.value
               ELSE p = <<>>
            /\ (ActiveApiKey /\ request.auth.addTo = "Headers"
                  /\ ~DeclaresAuthorization) =>
                   /\ h = <<[source |-> "auth", header |-> ApiKeyPair]>>
                   /\ p = <<>>
            /\ (ActiveApiKey /\ environment.name = "env") =>
                   /\ ApiKeyPair.key = Str("X")
                   /\ ApiKeyPair.value = Str("abc")

C7_Witness ==
    /\ pc = "done"
    /\ ActiveApiKey
    /\ request.auth.addTo = "Query params"
    /\ request.auth.value = Tpl("token")
    /\ environment.name = "env"
    /\ Len(request.params) = 1
    /\ Len(effective.effectiveFinalParams) = 2
    /\ effective.effectiveFinalParams[1]
         = [active |-> TRUE, key |-> Str("X"), value |-> Str("abc")]
    /\ AuthSourced(getComputedHeaders(request, Scope)) = <<>>

(***************************************************************************)
(* SpecVars: the three variable scopes.                                    *)
(***************************************************************************)
VarDomain ==
    {Binding1("id", Str("local")), Binding1("id", Str("local2")),
     Binding1("other", Str("o"))}

VarEnvDomain ==
    {[name |-> "empty", variables |-> <<>>],
     [name |-> "other", variables |-> <<Binding1("other", Str("env-o"))>>],
     [name |-> "id", variables |-> <<Binding1("id", Str("env"))>>],
     [name |-> "id-twice",
      variables |-> <<Binding1("other", Str("env-o")),
                      Binding1("id", Str("env")),
                      Binding1("id", Str("env2"))>>]}

GlobalDomain == {<<>>, <<Binding1("id", Str("global"))>>}

VarAuthDomain ==
    {[NoAuth EXCEPT !.authType = "bearer", !.token = Tpl("id")],
     [NoAuth EXCEPT !.authType = "api-key", !.key = Str("X"),
                    !.value = Tpl("id"), !.addTo = "Query params"]}

UrlencodedIdBody ==
    [contentType |-> "application/x-www-form-urlencoded",
     body |-> <<[malformed |-> FALSE, active |-> TRUE, key |-> Str("a"),
                 value |-> Tpl("id")]>>]

MultipartIdBody ==
    [contentType |-> "multipart/form-data",
     body |-> <<[key |-> Str("a"), active |-> TRUE, isFile |-> FALSE,
                 value |-> Tpl("id")]>>]

VarRequest ==
    [DefaultRequest EXCEPT
        !.headers = <<[key |-> Str("X-Custom"), value |-> Tpl("id"),
                       active |-> TRUE]>>,
        !.params = <<[key |-> Str("q"), value |-> Tpl("id"),
                      active |-> TRUE]>>]

InitVars ==
    /\ Idle
    /\ runtime = "later-earlier"
    /\ globalVariables \in GlobalDomain
    /\ environment \in VarEnvDomain
    /\ \E v \in SeqUpTo(VarDomain, MaxVars), a \in VarAuthDomain :
          \/ request = [VarRequest EXCEPT !.vars = v, !.auth = a,
                                          !.body = JsonBody]
          \/ request = [VarRequest EXCEPT !.vars = v, !.auth = a,
                                          !.body = UrlencodedIdBody]
          \/ request = [VarRequest EXCEPT !.vars = v, !.auth = a,
                                          !.body = MultipartIdBody]

SpecVars == InitVars /\ [][Next]_vars

\* bindings holds name, and value is its first binding there.
FirstBinding(bindings, name, value) ==
    \E i \in DOMAIN bindings :
       /\ bindings[i].key = name
       /\ bindings[i].value = value
       /\ \A j \in DOMAIN bindings : j < i => bindings[j].key # name

Binds(bindings, name) == \E i \in DOMAIN bindings : bindings[i].key = name

UrlIs(value) == effective.effectiveFinalURL = <<<<"lit", "/item/">>>> \o value

\* C5: effectiveFinalURL is request.endpoint with the placeholder {{id}}
\* replaced by its first binding in request.vars; when request.vars does
\* not bind it, by its first binding in environment.variables; when
\* neither does, by its first global binding; unbound, it stays as it is.
C5_UrlPrecedence ==
    (pc = "done" /\ request.endpoint = <<<<"lit", "/item/">>, <<"var", "id">>>>) =>
        IF Binds(request.vars, "id")
        THEN \E x \in {Str("local"), Str("local2")} :
                FirstBinding(request.vars, "id", x) /\ UrlIs(x)
        ELSE IF Binds(environment.variables, "id")
        THEN \E x \in {Str("env"), Str("env2")} :
                FirstBinding(environment.variables, "id", x) /\ UrlIs(x)
        ELSE IF Binds(globalVariables, "id")
        THEN FirstBinding(globalVariables, "id", Str("global"))
                /\ UrlIs(Str("global"))
        ELSE UrlIs(<<<<"var", "id">>>>)

C5_Witness ==
    /\ pc = "done"
    /\ Binds(request.vars, "id")
    /\ Binds(environment.variables, "id")
    /\ Binds(globalVariables, "id")
    /\ request.vars[1].key = "other"
    /\ effective.effectiveFinalURL = <<Lit("/item/"), Lit("local")>>

\* C6: a request that differs from the resolved one only in request.vars
\* gets the same effectiveFinalHeaders, effectiveFinalParams and
\* effectiveFinalBody; effectiveFinalVars is request.vars as declared; a
\* placeholder that only request.vars binds stays unresolved in headers
\* and params.
C6_VarsOnlyInUrl ==
    pc = "done" =>
        /\ \A v \in SeqUpTo(VarDomain, MaxVars) :
              LET other == getEffectiveRESTRequest(
                               [request EXCEPT !.vars = v], environment)
              IN  /\ other.effectiveFinalHeaders = effective.effectiveFinalHeaders
                  /\ other.effectiveFinalParams = effective.effectiveFinalParams
                  /\ other.effectiveFinalBody = effective.effectiveFinalBody
        /\ effective.effectiveFinalVars = request.vars
        /\ (~Binds(environment.variables, "id") /\ ~Binds(globalVariables, "id")) =>
              /\ \A j \in DOMAIN effective.effectiveFinalHeaders :
                    effective.effectiveFinalHeaders[j].key = Str("X-Custom") =>
                        effective.effectiveFinalHeaders[j].value = Tpl("id")
              /\ \A j \in DOMAIN effective.effectiveFinalParams :
                    effective.effectiveFinalParams[j].key = Str("q") =>
                        effective.effectiveFinalParams[j].value = Tpl("id")

C6_Witness ==
    /\ pc = "done"
    /\ Binds(request.vars, "id")
    /\ ~Binds(environment.variables, "id")
    /\ ~Binds(globalVariables, "id")
    /\ effective.effectiveFinalURL = <<Lit("/item/"), Lit("local")>>
    /\ effective.effectiveFinalVars # <<>>
    /\ \E j \in DOMAIN effective.effectiveFinalHeaders :
          /\ effective.effectiveFinalHeaders[j].key = Str("X-Custom")
          /\ effective.effectiveFinalHeaders[j].value = Tpl("id")
    /\ effective.effectiveFinalBody.kind = "string"
    /\ effective.effectiveFinalBody.value
         = <<Lit("{\"id\":"), Var("id"), Lit("}")>>

(***************************************************************************)
(* SpecBody: urlencoded bodies.                                            *)
(***************************************************************************)
LineDomain ==
    {[malformed |-> FALSE, active |-> a, key |-> k, value |-> v] :
        a \in {TRUE},
        k \in {Str("a")}, v \in {Tpl("v"), Str("2")}}
    \cup {[malformed |-> FALSE, active |-> FALSE, key |-> Str("b"),
           value |-> Str("1")],
          [malformed |-> FALSE, active |-> TRUE, key |-> EmptyString,
           value |-> Str("1")],
          [malformed |-> FALSE, active |-> TRUE, key |-> Str("c"),
           value |-> Tpl("missing")],
          [malformed |-> FALSE, active |-> TRUE, key |-> Tpl("missing"),
           value |-> Str("1")],
          [malformed |-> TRUE, active |-> TRUE, key |-> EmptyString,
           value |-> EmptyString]}

InitBody ==
    /\ Idle
    /\ runtime = "later-earlier"
    /\ globalVariables = <<>>
    /\ environment \in EnvDomain
    /\ \E lines \in SeqUpTo(LineDomain, MaxEntries) :
          request = [DefaultRequest EXCEPT
                        !.body = [contentType |->
                                      "application/x-www-form-urlencoded",
                                  body |-> lines]]

SpecBody == InitBody /\ [][Next]_vars

Lines == request.body.body

LineQualifies(i) ==
    /\ Lines[i].active
    /\ Lines[i].key # <<>>
    /\ parseTemplateStringE(Lines[i].key, Scope).isRight
    /\ parseTemplateStringE(Lines[i].value, Scope).isRight

LinePair(i) ==
    <<parseTemplateStringE(Lines[i].key, Scope).right,
      parseTemplateStringE(Lines[i].value, Scope).right>>

\* C8: when the raw urlencoded text parses, effectiveFinalBody is a string
\* whose key=value pairs are, counted with repetitions, the resolved pairs
\* of the entries that are active, have a non-empty key and whose key and
\* value both resolve; every other entry is absent.
C8_UrlencodedEntries ==
    (pc = "done" /\ \A i \in DOMAIN Lines : ~Lines[i].malformed) =>
        LET out == effective.effectiveFinalBody.value
            good == {i \in DOMAIN Lines : LineQualifies(i)}
        IN  /\ effective.effectiveFinalBody.kind = "string"
            /\ Len(out) = Cardinality(good)
            /\ \A i \in good :
                  Cardinality({j \in DOMAIN out : out[j] = LinePair(i)})
                    = Cardinality({k \in good : LinePair(k) = LinePair(i)})

C8_Witness ==
    /\ pc = "done"
    /\ Len(Lines) = 3
    /\ Lines[1].active /\ Lines[1].key = Str("c")
    /\ ~Lines[2].active
    /\ Lines[3].value = Tpl("v")
    /\ effective.effectiveFinalBody
         = [kind |-> "string", value |-> <<<<Str("a"), Str("1")>>>>]

(***************************************************************************)
(* SpecMultipart: multipart bodies, under both comparator call orders.     *)
(***************************************************************************)
EntryDomain ==
    {[key |-> Str("f"), active |-> TRUE, isFile |-> TRUE,
      value |-> <<Blob("b1"), Blob("b2")>>],
     [key |-> Str("g"), active |-> TRUE, isFile |-> TRUE,
      value |-> <<Blob("b3")>>],
     [key |-> Str("a"), active |-> TRUE, isFile |-> FALSE,
      value |-> Tpl("v")],
     [key |-> Str("b"), active |-> TRUE, isFile |-> FALSE,
      value |-> Str("1")],
     [key |-> Str("c"), active |-> FALSE, isFile |-> FALSE,
      value |-> Str("1")],
     [key |-> EmptyString, active |-> TRUE, isFile |-> TRUE,
      value |-> <<Blob("b4")>>]}

InitMultipart ==
    /\ Idle
    /\ runtime \in {"later-earlier", "earlier-later"}
    /\ globalVariables = <<>>
    /\ environment \in EnvDomain
    /\ \E entries \in SeqUpTo(EntryDomain, MaxEntries) :
          request = [DefaultRequest EXCEPT
                        !.body = [contentType |-> "multipart/form-data",
                                  body |-> entries]]

SpecMultipart == InitMultipart /\ [][Next]_vars

KeptEntries ==
    SelectSeq(request.body.body, LAMBDA x : x.key # <<>> /\ x.active)

\* C9: the container of a multipart body lists the non-file entries that
\* are active with a non-empty key, in their declared order, and after
\* them the file entries, in their declared order, each expanded into one
\* container entry per blob, in blob order.
C9_StableFilesLast ==
    pc = "done" =>
        /\ effective.effectiveFinalBody.kind = "formdata"
        /\ effective.effectiveFinalBody.value
             = arrayFlatMap(SelectSeq(KeptEntries, LAMBDA x : ~x.isFile)
                              \o SelectSeq(KeptEntries, LAMBDA x : x.isFile),
                            Scope)

(***************************************************************************)
(* SpecStream: getEffectiveRESTRequestStream under interleaved emissions   *)
(* of request$ and environment$.                                           *)
(***************************************************************************)
StreamRequests ==
    {[DefaultRequest EXCEPT !.endpoint = <<Lit(p), Var("id")>>] :
        p \in {"/a/", "/b/"}}

StreamEnvironments ==
    {[name |-> "empty", variables |-> <<>>],
     [name |-> "id", variables |-> <<Binding1("id", Str("env"))>>]}

InitStream ==
    /\ request = DefaultRequest
    /\ environment = [name |-> "empty", variables |-> <<>>]
    /\ globalVariables = <<>>
    /\ runtime = "later-earlier"
    /\ effective = NoResult
    /\ pc = "subscribed"
    /\ latest = [request |-> <<>>, environment |-> <<>>]
    /\ outputs = <<>>
    /\ log = <<>>

\* request$ emits r.
RequestNext ==
    \E r \in StreamRequests :
       /\ pc = "subscribed"
       /\ Len(log) < MaxEmissions
       /\ latest' = [latest EXCEPT !.request = <<r>>]
       /\ outputs' = emit(latest', outputs)
       /\ log' = Append(log, [stream |-> "request", value |-> r])
       /\ UNCHANGED <<request, environment, globalVariables, runtime,
                      effective, pc>>

\* environment$ emits e.
EnvironmentNext ==
    \E e \in StreamEnvironments :
       /\ pc = "subscribed"
       /\ Len(log) < MaxEmissions
       /\ latest' = [latest EXCEPT !.environment = <<e>>]
       /\ outputs' = emit(latest', outputs)
       /\ log' = Append(log, [stream |-> "environment", value |-> e])
       /\ UNCHANGED <<request, environment, globalVariables, runtime,
                      effective, pc>>

StreamNext == RequestNext \/ EnvironmentNext

SpecStream == InitStream /\ [][StreamNext]_vars

Emitted(stream, i) == {j \in 1..i : log[j].stream = stream}

LastEmitted(stream, i) ==
    log[CHOOSE j \in Emitted(stream, i) :
           \A k \in Emitted(stream, i) : k <= j].value

HaveBoth(i) == Emitted("request", i) # {} /\ Emitted("environment", i) # {}

\* C10: the stream has emitted one output for each input emission made
\* when both request$ and environment$ had emitted (that emission
\* included), none before, in the order of those emissions, and each is
\* getEffectiveRESTRequest of the last request and the last environment
\* emitted up to then.
C10_CombineLatest ==
    LET triggers == {i \in DOMAIN log : HaveBoth(i)}
        first == Len(log) - Len(outputs)
    IN  /\ Len(outputs) = Cardinality(triggers)
        /\ \A k \in DOMAIN outputs :
              /\ first + k \in triggers
              /\ outputs[k] = getEffectiveRESTRequest(
                                  LastEmitted("request", first + k),
                                  LastEmitted("environment", first + k))

C10_Witness ==
    /\ Len(log) = 4
    /\ log[1].stream = "request" /\ log[2].stream = "request"
    /\ log[3].stream = "environment" /\ log[4].stream = "request"
    /\ log[1].value # log[2].value /\ log[4].value = log[1].value
    /\ Len(outputs) = 2
    /\ outputs[1].request = log[2].value
    /\ outputs[2].request = log[1].value
    /\ outputs[2].effectiveFinalURL = <<Lit("/a/"), Lit("env")>>

====
